---------------------------- MODULE Spec2Model ----------------------------
(***************************************************************************)
(* Model of data_scrapper_tpdb.py: WebScraper.run_scraper drains each      *)
(* configured category page by page (scrape_category, fetch_content) into  *)
(* the dictionary all_data and then writes it with save_data.              *)
(*                                                                         *)
(* Strings are sequences of atoms.  The atoms "?" and "&" are the single   *)
(* characters; every other atom stands for a run of characters holding     *)
(* neither.  A Python dict is the sequence of its <<key, value>> pairs in  *)
(* insertion order.                                                        *)
(***************************************************************************)
EXTENDS Naturals, Sequences, FiniteSets, TLC

VARIABLES
    categories,    \* self.categories (line 89)
    all_data,      \* self.all_data (line 92)
    pc,            \* position of the run: "for", "while", "await", "save", "done", "fault"
    idx,           \* index in categories of the category the for loop is at (0 before the loop)
    category_url,  \* local category_url of scrape_category (None is the empty string here)
    reqs,          \* history: reqs[i] = the URLs passed to session.get for the i-th category
    log,           \* history: log[i] = the outcomes of those requests, as fetch_content saw them
    console,       \* history: the messages printed
    artifact,      \* the output file: [kind, doc]
    fault          \* the exception that ended the run, "none" otherwise

vars == <<categories, all_data, pc, idx, category_url, reqs, log, console, artifact, fault>>

\* The longest page chain the remote API serves for one category.
MaxPages == 2

------------------------------------------------------------------------------
\* Values

\* Python None, as the value of category_url: the loop test of line 120
\* takes None and the empty string alike.
None == << >>

\* config['api_url'] and config['base_url'] (lines 162-163)
api_url == <<"API">>
base_url == <<"BASE">>

\* self.url_and_base = self.api_url + self.base_url
url_and_base == api_url \o base_url

\* The configured category list (two tokens of the 27 of the CONFIG block).
ConfigCategories == <<"A", "B">>

\* Record arrays a page can carry in its `data` field.
D1 == <<"r1", "r2">>
D2 == <<"r2">>
DataArrays == {D1, D2}

\* Values of links.next that are strings.
LinkEmpty == << >>                              \* ""
LinkNoQuery == <<"host", "/path">>              \* no "?" at all
LinkOne == <<"host", "/path", "?", "p=2">>      \* one "?"
LinkTwo == <<"host", "?", "p=3", "?", "x">>     \* two "?": only the first splits
QueryLinks == {LinkOne, LinkTwo}

\* A parsed JSON body: hasData/data is the `data` key, links tells what the
\* `links` key holds ("absent": no such key, "nonext": an object without
\* `next` or with a null one, "str": an object whose `next` is the string
\* next), other says
\* whether the object has any further key.
Body(hasData, data, links, next, other) ==
    [hasData |-> hasData, data |-> data, links |-> links, next |-> next, other |-> other]

EmptyObject == Body(FALSE, << >>, "absent", << >>, FALSE)
OtherOnly == Body(FALSE, << >>, "absent", << >>, TRUE)

NoDataBodies ==
    { EmptyObject, OtherOnly,
      Body(FALSE, << >>, "str", LinkOne, FALSE),
      Body(TRUE, << >>, "absent", << >>, FALSE),
      Body(TRUE, << >>, "str", LinkOne, FALSE) }

DataBodies ==
    { Body(TRUE, d, "absent", << >>, FALSE) : d \in DataArrays }
    \cup { Body(TRUE, d, "nonext", << >>, FALSE) : d \in DataArrays }
    \cup { Body(TRUE, d, "str", l, FALSE) :
             d \in DataArrays, l \in {LinkEmpty, LinkNoQuery} \cup QueryLinks }

\* What session.get / raise_for_status / response.json() of lines 105-107 do:
\* raise a RequestException (ok = FALSE) or hand back a parsed body.
Failure == [ok |-> FALSE, body |-> EmptyObject]
Success(b) == [ok |-> TRUE, body |-> b]
Responses == {Failure} \cup { Success(b) : b \in NoDataBodies \cup DataBodies }

------------------------------------------------------------------------------
\* Pure parts of the code

\* f'{self.url_and_base}?letter={category}' (line 119)
InitialUrl(category) ==
    url_and_base \o <<"?", "letter=", category>>

\* Truthiness of the dict json_data in `if (json_data)` (line 122): a dict
\* is true when it has a key.
BodyTruthy(b) ==
    b.hasData \/ b.links # "absent" \/ b.other

\* HasRecords testing `target_data is not None` in place of its truth.
HasRecordsNotNone(b) ==
    b.hasData

\* json_data.get('data') and its test `if (target_data)` (lines 123-124):
\* there are records when the key is present and the array is not empty.
HasRecords(b) ==
    b.hasData /\ b.data # << >>

\* json_data.get('links', {}).get('next') (line 126): the string, or a
\* false value (None) when there is none.
NextPageUrl(b) ==
    IF b.links = "str" THEN b.next ELSE None

\* Index of the first "?" of s, 0 when s has none.
FirstQuery(s) ==
    IF \E i \in 1..Len(s) : s[i] = "?"
    THEN CHOOSE i \in 1..Len(s) : s[i] = "?" /\ \A j \in 1..(i - 1) : s[j] # "?"
    ELSE 0

\* s.split('?', 1): the list of the parts around the first "?".
Split(s) ==
    IF FirstQuery(s) = 0
    THEN <<s>>
    ELSE <<SubSeq(s, 1, FirstQuery(s) - 1), SubSeq(s, FirstQuery(s) + 1, Len(s))>>

\* SplitRaises without the `if next_page_url` of line 127: the subscript is
\* evaluated for a false next_page_url too.
SplitRaisesUnguarded(next_page_url) ==
    Len(Split(next_page_url)) < 2

\* Whether next_page_url.split('?', 1)[1] (line 127) raises IndexError:
\* the subscript is evaluated only for a true next_page_url.
SplitRaises(next_page_url) ==
    next_page_url # None /\ Len(Split(next_page_url)) < 2

\* NextCategoryUrl with the next-link appended as it came, not split.
NextCategoryUrlVerbatim(category, next_page_url) ==
    IF next_page_url # None
    THEN url_and_base \o <<"?", "letter=", category, "&">> \o next_page_url
    ELSE None

\* NextCategoryUrl refusing a URL this run has requested before.
NextCategoryUrlOnce(category, next_page_url) ==
    LET url == url_and_base \o <<"?", "letter=", category, "&">> \o Split(next_page_url)[2]
    IN IF next_page_url # None
          /\ \A i \in 1..Len(reqs) : \A k \in 1..Len(reqs[i]) : reqs[i][k] # url
       THEN url
       ELSE None

\* The new category_url of lines 127-128, for a next_page_url on which
\* line 127 does not raise.
NextCategoryUrl(category, next_page_url) ==
    IF next_page_url # None
    THEN url_and_base \o <<"?", "letter=", category, "&">> \o Split(next_page_url)[2]
    ELSE None

\* UrlAfterNone with the assignment of line 133 left out: the URL stays.
UrlAfterNoneKept(url) ==
    url

\* The new category_url when fetch_content returned None or a false body
\* (line 133).
UrlAfterNone(url) ==
    None

\* UrlAfterNoData with the assignment of line 131 left out: the URL stays.
UrlAfterNoDataKept(url, b) ==
    url

\* The new category_url when the body has no records (line 131).
UrlAfterNoData(url, b) ==
    None

\* Dict operations on all_data.
HasKey(d, k) ==
    \E i \in 1..Len(d) : d[i][1] = k

KeyIndex(d, k) ==
    CHOOSE i \in 1..Len(d) : d[i][1] = k

Get(d, k) ==
    d[KeyIndex(d, k)][2]

\* SetDefaultExtend putting the page's records in front of the entry's.
SetDefaultPrepend(d, category, target_data) ==
    IF HasKey(d, category)
    THEN [d EXCEPT ![KeyIndex(d, category)] = <<category, target_data \o @[2]>>]
    ELSE Append(d, <<category, target_data>>)

\* SetDefaultExtend with one list shared by every key: extending it shows
\* under each of them.
SetDefaultShared(d, category, target_data) ==
    LET all == [j \in 1..Len(d) |-> <<d[j][1], d[j][2] \o target_data>>]
    IN IF HasKey(d, category) THEN all ELSE Append(all, <<category, target_data>>)

\* SetDefaultExtend assigning the page's records in place of extending.
SetDefaultAssign(d, category, target_data) ==
    IF HasKey(d, category)
    THEN [d EXCEPT ![KeyIndex(d, category)] = <<category, target_data>>]
    ELSE Append(d, <<category, target_data>>)

\* self.all_data.setdefault(category, []).extend(target_data) (line 125)
SetDefaultExtend(d, category, target_data) ==
    IF HasKey(d, category)
    THEN [d EXCEPT ![KeyIndex(d, category)] = <<category, @[2] \o target_data>>]
    ELSE Append(d, <<category, target_data>>)

\* ShouldWrite without the test of line 149.
ShouldWriteAlways(d) ==
    TRUE

\* `if self.all_data` (line 149): a dict is true when it has a key.
ShouldWrite(d) ==
    d # << >>

\* JsonDump writing each key with the records of the first key.
JsonDumpFirstValue(d) ==
    [i \in 1..Len(d) |-> [key |-> d[i][1], value |-> d[1][2]]]

\* json.dump(self.all_data, ...) (line 155): the JSON object with one member
\* per key, in the dict's order, each value the JSON array of the records.
JsonDump(d) ==
    [i \in 1..Len(d) |-> [key |-> d[i][1], value |-> d[i][2]]]

NoArtifact == [kind |-> "none", doc |-> << >>]

Msg(kind, category) == [kind |-> kind, cat |-> category]

------------------------------------------------------------------------------
\* The remote API: any response to any request, except that a chain of
\* pages with records and a query next-link ends by the MaxPages-th page.
Continuing(resp) ==
    resp.ok /\ HasRecords(resp.body) /\ NextPageUrl(resp.body) \in QueryLinks

ServerResponses(served) ==
    IF served + 1 < MaxPages
    THEN Responses
    ELSE { r \in Responses : ~Continuing(r) }

------------------------------------------------------------------------------
\* WebScraper.__init__ (lines 84-92)
Init ==
    /\ categories = ConfigCategories
    /\ all_data = << >>
    /\ pc = "start"
    /\ idx = 0
    /\ category_url = None
    /\ reqs = [i \in 1..Len(ConfigCategories) |-> << >>]
    /\ log = [i \in 1..Len(ConfigCategories) |-> << >>]
    /\ console = << >>
    /\ artifact = NoArtifact
    /\ fault = "none"

\* A configured list that names a category twice.
DupCategories == <<"A", "A">>

\* WebScraper.__init__ with that list
InitDup ==
    /\ categories = DupCategories
    /\ all_data = << >>
    /\ pc = "start"
    /\ idx = 0
    /\ category_url = None
    /\ reqs = [i \in 1..Len(DupCategories) |-> << >>]
    /\ log = [i \in 1..Len(DupCategories) |-> << >>]
    /\ console = << >>
    /\ artifact = NoArtifact
    /\ fault = "none"

\* run_scraper up to its loop (line 139)
RunScraper ==
    /\ pc = "start"
    /\ console' = Append(console, Msg("executing", ""))
    /\ pc' = "for"
    /\ UNCHANGED <<categories, all_data, idx, category_url, reqs, log, artifact, fault>>

\* ForNext passing over a token that came earlier in the list.
ForNextSkipSeen ==
    /\ pc = "for"
    /\ idx < Len(categories)
    /\ idx' = idx + 1
    /\ console' = Append(console, Msg("category", categories[idx + 1]))
    /\ IF \E h \in 1..idx : categories[h] = categories[idx + 1]
       THEN /\ category_url' = None
            /\ pc' = "for"
       ELSE /\ category_url' = InitialUrl(categories[idx + 1])
            /\ pc' = "while"
    /\ UNCHANGED <<categories, all_data, reqs, log, artifact, fault>>

\* The for loop takes the next category and scrape_category starts
\* (lines 140-142, 119)
ForNext ==
    /\ pc = "for"
    /\ idx < Len(categories)
    /\ idx' = idx + 1
    /\ console' = Append(console, Msg("category", categories[idx + 1]))
    /\ category_url' = InitialUrl(categories[idx + 1])
    /\ pc' = "while"
    /\ UNCHANGED <<categories, all_data, reqs, log, artifact, fault>>

\* ForEnd calling save_data once a category was drained, the rest of the
\* list not looked at.
ForEndEarly ==
    /\ pc = "for"
    /\ idx >= 1
    /\ pc' = "save"
    /\ UNCHANGED <<categories, all_data, idx, category_url, reqs, log, console, artifact, fault>>

\* The for loop is exhausted: save_data is called (line 143)
ForEnd ==
    /\ pc = "for"
    /\ idx = Len(categories)
    /\ pc' = "save"
    /\ UNCHANGED <<categories, all_data, idx, category_url, reqs, log, console, artifact, fault>>

\* `while category_url` holds: fetch_content sends the request
\* (lines 120-121, 105)
IssueRequest ==
    /\ pc = "while"
    /\ category_url # None
    /\ reqs' = [reqs EXCEPT ![idx] = Append(@, category_url)]
    /\ pc' = "await"
    /\ UNCHANGED <<categories, all_data, idx, category_url, log, console, artifact, fault>>

\* ExitWhile starting the category over when its last request failed.
ExitWhileRetry ==
    /\ pc = "while"
    /\ category_url = None
    /\ IF ~log[idx][Len(log[idx])].ok
       THEN /\ category_url' = InitialUrl(categories[idx])
            /\ pc' = "while"
       ELSE /\ pc' = "for"
            /\ UNCHANGED category_url
    /\ UNCHANGED <<categories, all_data, idx, reqs, log, console, artifact, fault>>

\* `while category_url` fails: scrape_category returns (line 120)
ExitWhile ==
    /\ pc = "while"
    /\ category_url = None
    /\ pc' = "for"
    /\ UNCHANGED <<categories, all_data, idx, category_url, reqs, log, console, artifact, fault>>

\* The request ends with resp: the rest of fetch_content and the body of
\* the while loop (lines 106-110, 122-133)
Respond(resp) ==
    LET category == categories[idx]
        b == resp.body
    IN
    /\ pc = "await"
    /\ resp \in ServerResponses(Len(log[idx]))
    /\ log' = [log EXCEPT ![idx] = Append(@, resp)]
    /\ IF ~resp.ok
       THEN /\ console' = Append(console, Msg("fetch_error", category))
            /\ category_url' = UrlAfterNone(category_url)
            /\ pc' = "while"
            /\ UNCHANGED <<all_data, fault>>
       ELSE IF ~BodyTruthy(b)
       THEN /\ category_url' = UrlAfterNone(category_url)
            /\ pc' = "while"
            /\ UNCHANGED <<all_data, console, fault>>
       ELSE IF ~HasRecords(b)
       THEN /\ console' = Append(console, Msg("not_found", category))
            /\ category_url' = UrlAfterNoData(category_url, b)
            /\ pc' = "while"
            /\ UNCHANGED <<all_data, fault>>
       ELSE /\ all_data' = SetDefaultExtend(all_data, category, b.data)
            /\ IF SplitRaises(NextPageUrl(b))
               THEN /\ pc' = "fault"
                    /\ fault' = "IndexError"
                    /\ UNCHANGED category_url
               ELSE /\ category_url' = NextCategoryUrl(category, NextPageUrl(b))
                    /\ pc' = "while"
                    /\ UNCHANGED fault
            /\ UNCHANGED console
    /\ UNCHANGED <<categories, idx, reqs, artifact>>

\* SaveData with the write wrapped in a try whose except passes: the
\* success message follows whatever the write did.
SaveDataSwallow(outcome) ==
    /\ pc = "save"
    /\ outcome \in {"ok", "open_fails", "dump_fails"}
    /\ IF all_data # << >>
       THEN /\ artifact' = IF outcome = "ok"
                           THEN [kind |-> "complete", doc |-> JsonDump(all_data)]
                           ELSE IF outcome = "dump_fails"
                           THEN [kind |-> "partial", doc |-> << >>]
                           ELSE artifact
            /\ console' = Append(console, Msg("saved", ""))
       ELSE /\ outcome = "ok"
            /\ console' = Append(console, Msg("no_data", ""))
            /\ UNCHANGED artifact
    /\ pc' = "done"
    /\ UNCHANGED <<categories, all_data, idx, category_url, reqs, log, fault>>

\* save_data (lines 145-158); outcome is what opening and writing the file
\* does: "ok", "open_fails" (OSError from open, no file), "dump_fails"
\* (OSError while writing, the file is left incomplete).
SaveData(outcome) ==
    /\ pc = "save"
    /\ IF ShouldWrite(all_data)
       THEN CASE outcome = "ok" ->
                   /\ artifact' = [kind |-> "complete", doc |-> JsonDump(all_data)]
                   /\ console' = Append(console, Msg("saved", ""))
                   /\ pc' = "done"
                   /\ UNCHANGED fault
              [] outcome = "open_fails" ->
                   /\ pc' = "fault"
                   /\ fault' = "OSError"
                   /\ UNCHANGED <<artifact, console>>
              [] outcome = "dump_fails" ->
                   /\ artifact' = [kind |-> "partial", doc |-> << >>]
                   /\ pc' = "fault"
                   /\ fault' = "OSError"
                   /\ UNCHANGED console
       ELSE /\ outcome = "ok"
            /\ console' = Append(console, Msg("no_data", ""))
            /\ pc' = "done"
            /\ UNCHANGED <<artifact, fault>>
    /\ UNCHANGED <<categories, all_data, idx, category_url, reqs, log>>

WriteOutcomes == {"ok", "open_fails", "dump_fails"}

Next ==
    \/ RunScraper
    \/ ForNext
    \/ ForEnd
    \/ IssueRequest
    \/ ExitWhile
    \/ \E resp \in Responses : Respond(resp)
    \/ \E outcome \in WriteOutcomes : SaveData(outcome)

Spec == Init /\ [][Next]_vars

DupSpec == InitDup /\ [][Next]_vars

\* The interpreter runs the program: a step that can be taken is taken.
FairSpec == Spec /\ WF_vars(Next)

------------------------------------------------------------------------------
\* Vocabulary of the properties, read off the histories

CatIndexes == 1..Len(categories)

\* scrape_category has returned for the i-th category.
Drained(i) ==
    \/ i < idx
    \/ i = idx /\ (pc \in {"for", "save", "done"} \/ fault = "OSError")

\* save_data was called and has ended, by returning or by raising.
SaveEnded ==
    pc = "done" \/ fault = "OSError"

\* The run has ended, by returning or by an unhandled exception.
RunEnded ==
    pc \in {"done", "fault"}

\* The record array a response carries (empty for a failure or a body
\* without `data`).
PageRecords(resp) ==
    IF resp.ok /\ resp.body.hasData THEN resp.body.data ELSE << >>

\* A successfully fetched page without `data` or with an empty array.
EmptyPage(resp) ==
    resp.ok /\ PageRecords(resp) = << >>

\* The next-link of a response, "" when it has none.
PageLink(resp) ==
    IF resp.ok /\ resp.body.links = "str" THEN resp.body.next ELSE << >>

HasQuery(s) ==
    \E j \in 1..Len(s) : s[j] = "?"

\* The part of s after its first "?" (s has one).
RECURSIVE AfterFirstQuery(_)
AfterFirstQuery(s) ==
    IF s = << >> THEN << >>
    ELSE IF Head(s) = "?" THEN Tail(s)
    ELSE AfterFirstQuery(Tail(s))

\* The part of s before its first "?" (all of s when it has none).
RECURSIVE BeforeFirstQuery(_)
BeforeFirstQuery(s) ==
    IF s = << >> THEN << >>
    ELSE IF Head(s) = "?" THEN << >>
    ELSE <<Head(s)>> \o BeforeFirstQuery(Tail(s))

\* The records of the pages of l, in page order.
RECURSIVE ConcatRecords(_)
ConcatRecords(l) ==
    IF l = << >> THEN << >>
    ELSE ConcatRecords(SubSeq(l, 1, Len(l) - 1)) \o PageRecords(l[Len(l)])

\* The accumulator entry of category c, "" standing for no entry.
Entry(c) ==
    IF HasKey(all_data, c) THEN Get(all_data, c) ELSE << >>

\* A finite page chain: every page fetched with records, every page but the
\* last with a next-link holding a query string, the last with no next-link.
FiniteChain(l) ==
    /\ Len(l) >= 1
    /\ \A k \in 1..Len(l) :
        /\ l[k].ok
        /\ PageRecords(l[k]) # << >>
        /\ k < Len(l) => HasQuery(PageLink(l[k]))
        /\ k = Len(l) => PageLink(l[k]) = << >>

\* The URL the code is to request after a page of category c whose
\* next-link is link.
FollowUrl(c, link) ==
    url_and_base \o <<"?", "letter=", c, "&">> \o AfterFirstQuery(link)

------------------------------------------------------------------------------
\* C1: a category with a finite page chain of n pages gets exactly n
\* requests, one per page in chain order, and its accumulator entry is the
\* concatenation of the pages' record arrays in page order.
C1_FiniteChainConcat ==
    \A i \in CatIndexes :
        FiniteChain(log[i]) =>
            /\ Len(reqs[i]) = Len(log[i])
            /\ reqs[i][1] = url_and_base \o <<"?", "letter=", categories[i]>>
            /\ \A k \in 2..Len(reqs[i]) :
                   reqs[i][k] = FollowUrl(categories[i], PageLink(log[i][k - 1]))
            /\ HasKey(all_data, categories[i])
            /\ Get(all_data, categories[i]) = ConcatRecords(log[i])

\* Scenario A: two records and a next-link, then one record and no link.
C1_Witness ==
    /\ Drained(1)
    /\ FiniteChain(log[1])
    /\ Len(log[1]) = 2
    /\ PageRecords(log[1][1]) = D1
    /\ PageRecords(log[1][2]) = D2
    /\ Entry(categories[1]) = D1 \o D2

\* C2: a fetch error on the k-th request of a category ends the category:
\* the failure is the last outcome, no request follows it, and the entry is
\* the concatenation of pages 1..k-1 (no entry when k = 1).
C2_FailureStops ==
    \A i \in CatIndexes :
        \A k \in 1..Len(log[i]) :
            ~log[i][k].ok =>
                /\ k = Len(log[i])
                /\ Len(reqs[i]) = k
                /\ k = 1 => ~HasKey(all_data, categories[i])
                /\ k > 1 =>
                       /\ HasKey(all_data, categories[i])
                       /\ Get(all_data, categories[i])
                            = ConcatRecords(SubSeq(log[i], 1, k - 1))

C2_Witness ==
    /\ Drained(1)
    /\ Len(log[1]) = 2
    /\ ~log[1][2].ok
    /\ Entry(categories[1]) = D1
    /\ Len(reqs[2]) >= 1

\* C3: whatever the pages do, when the run has ended every configured
\* category had a request and save_data was called.
C3_EveryCategoryAndSave ==
    RunEnded =>
        /\ \A i \in CatIndexes : Len(reqs[i]) >= 1
        /\ SaveEnded

\* C4: a fetched page without records leaves the accumulator as it was and
\* is the last request of its category.
C4_NoDataStops ==
    [][\A i \in CatIndexes :
           /\ (Len(log'[i]) = Len(log[i]) + 1 /\ EmptyPage(log'[i][Len(log'[i])]))
                  => all_data' = all_data
           /\ (log[i] # << >> /\ EmptyPage(log[i][Len(log[i])]))
                  => reqs'[i] = reqs[i] /\ log'[i] = log[i]]_vars

\* An empty page that carries a next-link, after a page with records.
C4_Witness ==
    /\ Drained(1)
    /\ Len(log[1]) = 2
    /\ EmptyPage(log[1][2])
    /\ HasQuery(PageLink(log[1][2]))
    /\ Entry(categories[1]) = D1
    /\ Len(reqs[1]) = 2

\* C5: a page with records and a non-empty next-link without "?" ends the
\* category normally: records merged, no further request, no fault.
C5_NoQueryLinkStops ==
    \A i \in CatIndexes :
        \A k \in 1..Len(log[i]) :
            (PageRecords(log[i][k]) # << >>
                /\ PageLink(log[i][k]) # << >>
                /\ ~HasQuery(PageLink(log[i][k])))
            => /\ k = Len(log[i])
               /\ Len(reqs[i]) = k
               /\ HasKey(all_data, categories[i])
               /\ fault = "none"

\* C6: the run ends with the pager of every category returned.
C6_Terminates ==
    <>(RunEnded /\ \A i \in CatIndexes : Drained(i))

\* C7: a category has an entry exactly when one of its processed pages had
\* a record; no entry is empty.
C7_EntryIffRecord ==
    /\ \A i \in CatIndexes :
           HasKey(all_data, categories[i])
               <=> \E k \in 1..Len(log[i]) : PageRecords(log[i][k]) # << >>
    /\ \A j \in 1..Len(all_data) :
           /\ all_data[j][2] # << >>
           /\ \E i \in CatIndexes : all_data[j][1] = categories[i]

\* The first category failed on its first page, the second has records.
C7_Witness ==
    /\ log[1] = <<Failure>>
    /\ ~HasKey(all_data, categories[1])
    /\ HasKey(all_data, categories[2])
    /\ Drained(2)

Printed(kind) ==
    \E j \in 1..Len(console) : console[j].kind = kind

\* The categories one of whose processed pages had a record.
Yielded ==
    { i \in CatIndexes : \E k \in 1..Len(log[i]) : PageRecords(log[i][k]) # << >> }

\* C8 as stated: once save_data has ended there is an artifact exactly when
\* the accumulator was not empty, and an empty accumulator is reported.
C8_ArtifactIffNonEmpty ==
    SaveEnded =>
        /\ artifact.kind # "none" <=> all_data # << >>
        /\ all_data = << >> => Printed("no_data")

\* C8 amended: with an empty accumulator save_data writes nothing and
\* reports that there is no data; with a non-empty one it writes the whole
\* artifact and reports it, unless opening or writing the file raises.
C8_WriteUnlessEmptyOrError ==
    SaveEnded =>
        /\ all_data = << >> =>
               /\ artifact.kind = "none"
               /\ Printed("no_data")
               /\ ~Printed("saved")
               /\ pc = "done"
        /\ all_data # << >> =>
               /\ ~Printed("no_data")
               /\ \/ pc = "done" /\ artifact.kind = "complete" /\ Printed("saved")
                  \/ fault = "OSError" /\ artifact.kind # "complete" /\ ~Printed("saved")

\* Every category was empty or failed: nothing is written.
C8_Witness ==
    /\ pc = "done"
    /\ all_data = << >>
    /\ artifact.kind = "none"
    /\ Printed("no_data")
    /\ \A i \in CatIndexes : Len(log[i]) >= 1

\* C9: a written artifact has one top-level key per category that yielded a
\* record and no other, each with that category's records in page order.
C9_ArtifactContent ==
    artifact.kind = "complete" =>
        /\ Len(artifact.doc) = Cardinality(Yielded)
        /\ \A j \in 1..Len(artifact.doc) :
               \E i \in Yielded :
                   /\ artifact.doc[j].key = categories[i]
                   /\ artifact.doc[j].value = ConcatRecords(log[i])
        /\ \A i \in Yielded :
               \E j \in 1..Len(artifact.doc) : artifact.doc[j].key = categories[i]

\* Scenario D: both categories yielded records, over more than one page.
C9_Witness ==
    /\ artifact.kind = "complete"
    /\ Yielded = {1, 2}
    /\ Len(log[1]) = 2
    /\ PageRecords(log[1][2]) # << >>
    /\ ConcatRecords(log[1]) # ConcatRecords(log[2])

\* The atoms a link holds before its first "?".
PrefixAtoms(link) ==
    { BeforeFirstQuery(link)[j] : j \in 1..Len(BeforeFirstQuery(link)) }

C11_ResolutionIgnoresHistory ==
    \A i \in CatIndexes : \A i2 \in CatIndexes :
        \A k \in 1..Len(log[i]) : \A k2 \in 1..Len(log[i2]) :
            (categories[i] = categories[i2] /\ log[i][k] = log[i2][k2]) =>
                /\ (Len(reqs[i]) > k /\ Len(reqs[i2]) > k2)
                       => reqs[i][k + 1] = reqs[i2][k2 + 1]
                /\ (Drained(i) /\ Drained(i2))
                       => (Len(reqs[i]) > k <=> Len(reqs[i2]) > k2)

\* The same page opens both drains of "A", after different histories.
C11_Witness ==
    /\ Drained(2)
    /\ categories[1] = categories[2]
    /\ log[1][1] = log[2][1]
    /\ HasQuery(PageLink(log[1][1]))
    /\ Len(reqs[1]) = 2
    /\ Len(reqs[2]) = 2
    /\ reqs[1][2] = reqs[2][2]
    /\ log[1][2] # log[2][2]

PrintedFor(kind, c) ==
    \E j \in 1..Len(console) : console[j] = Msg(kind, c)

\* C12: a category gets the no-data warning exactly when one of its fetched
\* pages carried no records (an empty object, no `data`, an empty array),
\* and the fetch error report exactly when one of its requests failed.
C12_EmptyWarnsFailureDoesNot ==
    \A i \in CatIndexes :
        /\ (\E k \in 1..Len(log[i]) : EmptyPage(log[i][k]))
               <=> PrintedFor("not_found", categories[i])
        /\ (\E k \in 1..Len(log[i]) : ~log[i][k].ok)
               <=> PrintedFor("fetch_error", categories[i])

IsPrefix(p, q) ==
    Len(p) <= Len(q) /\ SubSeq(q, 1, Len(p)) = p

\* C14: while the (k+1)-th request of a category is out, its entry is the
\* concatenation of pages 1..k; and the records of the pages before any
\* issued request stay the head of the entry whatever comes later.
C14_MergedBeforeNextRequest ==
    \A i \in CatIndexes :
        /\ (idx = i /\ pc = "await" /\ Len(reqs[i]) >= 2) =>
               /\ Len(log[i]) = Len(reqs[i]) - 1
               /\ HasKey(all_data, categories[i])
               /\ Get(all_data, categories[i]) = ConcatRecords(log[i])
        /\ \A k \in 1..Len(reqs[i]) :
               k >= 2 =>
                   IsPrefix(ConcatRecords(SubSeq(log[i], 1, k - 1)), Entry(categories[i]))

\* The second request of "A" failed after the first page was merged.
C14_Witness ==
    /\ Drained(1)
    /\ Len(reqs[1]) = 2
    /\ PageRecords(log[1][1]) = D1
    /\ ~log[1][2].ok
    /\ Entry(categories[1]) = D1

\* An outcome after which the pager of the category is in a terminal state:
\* a failure (Failed), no records (Empty), records and no link to follow
\* (Done).
TerminalOutcome(resp) ==
    \/ ~resp.ok
    \/ PageRecords(resp) = << >>
    \/ ~HasQuery(PageLink(resp))

\* C15: a request is issued only for the category the loop is at, with no
\* request out, every earlier category returned and no later one begun,
\* and never after an outcome that ended the category's pager.
C15_SequentialInOrder ==
    [][\A i \in CatIndexes :
           reqs'[i] # reqs[i] =>
               /\ i = idx
               /\ Len(reqs'[i]) = Len(reqs[i]) + 1
               /\ \A j \in CatIndexes : Len(reqs[j]) = Len(log[j])
               /\ \A j \in CatIndexes : j < i => Drained(j)
               /\ \A j \in CatIndexes : j > i => reqs[j] = << >>
               /\ log[i] # << >> => ~TerminalOutcome(log[i][Len(log[i])])]_vars

\* The second category is being requested after the first one failed.
C15_Witness ==
    /\ idx = 2
    /\ pc = "await"
    /\ Len(reqs[2]) = 2
    /\ Len(log[2]) = 1
    /\ Len(reqs[1]) = 1
    /\ ~log[1][1].ok

\* C16: no step removes an entry of the accumulator, and each entry's
\* record sequence before the step is a prefix of the one after it.
C16_AppendOnly ==
    [][\A j \in 1..Len(all_data) :
           /\ j <= Len(all_data')
           /\ all_data'[j][1] = all_data[j][1]
           /\ IsPrefix(all_data[j][2], all_data'[j][2])]_vars

\* An entry that grew over two pages, and a second entry after it.
C16_Witness ==
    /\ Len(all_data) = 2
    /\ Len(log[1]) = 2
    /\ all_data[1] = <<categories[1], D2 \o D1>>
    /\ all_data[2][1] = categories[2]

\* C17: a step that changes the accumulator changes the entry of the
\* category being drained and no other: the other entries stay as they
\* are and no entry of another category appears.
C17_OtherEntriesUntouched ==
    [][all_data' # all_data =>
           /\ idx \in CatIndexes
           /\ idx' = idx
           /\ \A j \in 1..Len(all_data) :
                  all_data[j][1] # categories[idx] =>
                      j <= Len(all_data') /\ all_data'[j] = all_data[j]
           /\ \A j \in 1..Len(all_data') :
                  all_data'[j][1] # categories[idx] =>
                      j <= Len(all_data) /\ all_data[j] = all_data'[j]]_vars

\* "B" was drained to a failure on its second page while "A" had an entry.
C17_Witness ==
    /\ Drained(2)
    /\ Entry(categories[1]) = D1
    /\ Entry(categories[2]) = D2
    /\ Len(log[2]) = 2
    /\ ~log[2][2].ok

\* C18: save_data runs, and the file changes, only with every category
\* drained and no file written before; once save_data has ended or a file
\* exists, no request is made and the accumulator does not change.
C18_WriteOnceAtEnd ==
    [][/\ (artifact' # artifact \/ (pc = "save" /\ pc' # "save")) =>
              /\ artifact = NoArtifact
              /\ \A i \in CatIndexes : Drained(i) /\ Len(reqs[i]) = Len(log[i])
              /\ UNCHANGED <<all_data, reqs, log>>
       /\ (SaveEnded \/ artifact # NoArtifact) =>
              UNCHANGED <<all_data, reqs, log, artifact>>]_vars

\* The artifact was written after both categories were drained.
C18_Witness ==
    /\ pc = "done"
    /\ artifact.kind = "complete"
    /\ \A i \in CatIndexes : Drained(i)
    /\ Len(log[2]) = 2
    /\ Len(artifact.doc) = 2

\* C19: when save_data has ended on a non-empty accumulator without a whole
\* artifact, the run has ended with the OSError, neither the success nor
\* the no-data message was printed and save_data cannot run again; the
\* success message is printed only with the whole artifact written.
C19_WriteFailureOutcome ==
    /\ (SaveEnded /\ all_data # << >> /\ artifact.kind # "complete") =>
           /\ pc = "fault"
           /\ fault = "OSError"
           /\ ~Printed("saved")
           /\ ~Printed("no_data")
           /\ ~ENABLED (\E outcome \in WriteOutcomes : SaveData(outcome))
    /\ Printed("saved") => (artifact.kind = "complete" /\ fault = "none")

\* The write failed after the file was opened.
C19_Witness ==
    /\ fault = "OSError"
    /\ artifact.kind = "partial"
    /\ all_data # << >>
    /\ pc = "fault"

\* The records of the first n drains that are of category c, in list order.
RECURSIVE ConcatDrains(_, _)
ConcatDrains(c, n) ==
    IF n = 0 THEN << >>
    ELSE ConcatDrains(c, n - 1)
           \o (IF categories[n] = c THEN ConcatRecords(log[n]) ELSE << >>)

\* C20: every occurrence of a token in the list is drained on its own, from
\* the initial URL, and the entry of the token is the concatenation of the
\* records of its drains in list order.
C20_DuplicateDrainedAgain ==
    \A i \in CatIndexes :
        /\ Drained(i) => Len(reqs[i]) >= 1
        /\ reqs[i] # << >> =>
               reqs[i][1] = url_and_base \o <<"?", "letter=", categories[i]>>
        /\ Entry(categories[i]) = ConcatDrains(categories[i], Len(categories))

\* Both drains of "A" returned the same two pages: its records are there twice.
C20_Witness ==
    /\ categories[1] = categories[2]
    /\ Drained(2)
    /\ log[1] = log[2]
    /\ Len(log[1]) = 2
    /\ ConcatRecords(log[1]) = D1 \o D2
    /\ Entry(categories[1]) = D1 \o D2 \o D1 \o D2
    /\ Len(all_data) = 1

==============================================================================
